---- MODULE Spec2Model ----
(***************************************************************************)
(* A model of the discrete-event simulation core of RustSim:               *)
(*   src/src/scheduler.rs   EventEntry, Scheduler (BinaryHeap + clock)     *)
(*   src/src/container.rs   Container (Vec<Option<(generator, state)>>)    *)
(*   src/src/simulation.rs  Simulation (the driver, step_with)             *)
(*                                                                         *)
(* Durations are natural numbers.  A Key is represented by its id (the     *)
(* index Container::add_generator passes to Key::new).  A generator body   *)
(* is user code: each resume nondeterministically yields one Action or     *)
(* completes.  A panic ends the program: the variable panic names it and   *)
(* no operation is enabled afterwards; the partial effects the handler     *)
(* made before the panic are kept in the state.                            *)
(*                                                                         *)
(* Variables and record fields marked "history" are not program state:     *)
(* they record what happened so that the properties can be stated, and     *)
(* nothing the program computes reads them.                                *)
(***************************************************************************)
EXTENDS Integers, Sequences, FiniteSets

\* ---------------------------------------------------------------- bounds

\* Generators that may be registered (Spec).
MaxProcs == 2
\* Pending entries the event queue may hold.
MaxQueue == 3
\* Largest delay passed to schedule / yielded in Hold.
MaxDelay == 1
\* Largest virtual time the clock may reach.
MaxTime == 2
\* Generators that may be registered (SpecNow).
MaxProcsNow == 4
\* Longest key list of an ActivateMany (SpecNow).
MaxManyNow == 3
\* Pending entries and distinct keys (SchedSpec).
MaxQueueSched == 4
MaxKeysSched == 3
\* Longest key list of an ActivateMany (Spec).
MaxMany == 2
\* Generators that may be registered (SpecRun).
MaxProcsRun == 2
\* Most commands the terminating generators yield in total (SpecRun).
MaxFuel == 3
\* Largest limit passed to run_with_limit (SpecRun).
MaxLimit == 3

KeyIds(n) == 0 .. (n - 1)
Delays == 0 .. MaxDelay

VARIABLES
    clock,      \* Scheduler.clock
    events,     \* Scheduler.events: the BinaryHeap's backing vector
    inner,      \* Container.inner: the Vec of optional slots
    panic,      \* "none", or the panic that ended the program
    usched,     \* history: per key, user calls of schedule (2 = two or more)
    due,        \* history: per key, the time its next resume is expected at
    act,        \* history: the last Activate* and the resumes it still expects
    regs,       \* history: number of add_generator calls so far
    fifo,       \* history: the pending entries in insertion order
    last,       \* history: the last operation and the key it returned
    gens,       \* per key, the body of the generator registered under it
    run         \* the run_until_empty / run_with_limit call and its loop

vars == <<clock, events, inner, panic, usched, due, act, regs, fifo, last,
          gens, run>>

\* ------------------------------------------------- scheduler.rs: EventEntry

\* EventEntry::new
EventEntryNew(time, component) == [time |-> time, component |-> component]

\* Faulty variant: the time compared without Reverse.
EntryLeFlipped(a, b) == a.time <= b.time
\* a <= b under impl Ord for EventEntry: cmp compares Reverse(time) only.
EntryLe(a, b) == a.time >= b.time

\* ------------------------------------- std BinaryHeap, as Scheduler uses it
\* Positions are 0-based as in the Vec; data[p + 1] is the element at p.

\* BinaryHeap::sift_up(start, pos) with the hole's element elt taken out.
RECURSIVE SiftUpHole(_, _, _, _)
SiftUpHole(data, elt, start, pos) ==
    IF pos > start
    THEN LET parent == (pos - 1) \div 2
         IN  IF EntryLe(elt, data[parent + 1])
             THEN [data EXCEPT ![pos + 1] = elt]
             ELSE SiftUpHole([data EXCEPT ![pos + 1] = data[parent + 1]],
                             elt, start, parent)
    ELSE [data EXCEPT ![pos + 1] = elt]

SiftUp(data, start, pos) == SiftUpHole(data, data[pos + 1], start, pos)

\* The descent of BinaryHeap::sift_down_to_bottom: the hole moves to the
\* greater child (the right one when the two compare equal) down to a leaf.
RECURSIVE SiftDownHole(_, _, _)
SiftDownHole(data, elt, pos) ==
    LET end   == Len(data)
        child == 2 * pos + 1
    IN  IF child + 1 < end
        THEN LET c == IF EntryLe(data[child + 1], data[child + 2])
                      THEN child + 1 ELSE child
             IN  SiftDownHole([data EXCEPT ![pos + 1] = data[c + 1]], elt, c)
        ELSE IF child = end - 1
        THEN [data |-> [data EXCEPT ![pos + 1] = data[child + 1],
                                    ![child + 1] = elt],
              pos  |-> child]
        ELSE [data |-> [data EXCEPT ![pos + 1] = elt], pos |-> pos]

SiftDownToBottom(data, pos) ==
    LET r == SiftDownHole(data, data[pos + 1], pos)
    IN  SiftUp(r.data, pos, r.pos)

\* Faulty variant: the new element overwrites the root.
HeapPushOverRoot(data, item) ==
    IF data = <<>> THEN <<item>> ELSE [data EXCEPT ![1] = item]
\* BinaryHeap::push
HeapPush(data, item) == SiftUp(Append(data, item), 0, Len(data))

\* BinaryHeap::pop on a non-empty heap: the last element replaces the root
\* and is sifted down; the old root is returned.
HeapPop(data) ==
    LET lastItem == data[Len(data)]
        short    == SubSeq(data, 1, Len(data) - 1)
    IN  IF short = <<>>
        THEN [item |-> lastItem, rest |-> short]
        ELSE [item |-> short[1],
              rest |-> SiftDownToBottom([short EXCEPT ![1] = lastItem], 0)]

\* ------------------------------------------------ scheduler.rs: Scheduler

\* Faulty variant: the delay taken as the absolute time.
ScheduleAtDelay(d, time, component) ==
    [d EXCEPT !.events =
        HeapPush(d.events, EventEntryNew(time, component))]
\* Scheduler::schedule: the entry's time is the clock plus the delay.
\* d is the driver state [clock, events, inner, panic].
Schedule(d, time, component) ==
    [d EXCEPT !.events =
        HeapPush(d.events, EventEntryNew(d.clock + time, component))]

\* Scheduler::schedule_now
ScheduleNow(d, component) == Schedule(d, 0, component)

\* Scheduler::pop on a non-empty queue: the clock is replaced by the popped
\* entry's time.
SchedulerPop(d) ==
    LET r == HeapPop(d.events)
    IN  [item |-> r.item,
         d    |-> [d EXCEPT !.clock = r.item.time, !.events = r.rest]]

\* ------------------------------------------------ container.rs: Container

\* A vacated (taken) slot: None.
NoSlot == [some |-> FALSE, state |-> "Active", gid |-> 0, sleeps |-> FALSE]

\* Some((gen, ComponentState::Active)).  History fields: gid numbers the
\* registrations; sleeps holds when the last command the generator yielded
\* was Passivate and no peer has named it in an Activate* since.
NewSlot(gid) == [some |-> TRUE, state |-> "Active", gid |-> gid, sleeps |-> FALSE]

\* self.inner.get(key.id).flatten().is_some()
Resident(slots, key) ==
    /\ key + 1 <= Len(slots)
    /\ slots[key + 1].some

\* Faulty variant: the key is the number of occupied slots.
AddGeneratorKeyLive(slots) ==
    Cardinality({i \in DOMAIN slots : slots[i].some})
\* Container::add_generator: the key is the length before the push.
AddGeneratorKey(slots) == Len(slots)

ContainerAdd(slots, gid) == Append(slots, NewSlot(gid))

\* Container::len: the length of the Vec, vacated slots included.
ContainerLen(slots) == Len(slots)

\* Faulty variant: the slot keeps its contents.
ContainerRemoveNothing(slots, key) == slots
\* Faulty variant: Vec::remove, which shifts the later slots down.
ContainerRemoveShift(slots, key) ==
    IF key + 1 <= Len(slots)
    THEN SubSeq(slots, 1, key) \o SubSeq(slots, key + 2, Len(slots))
    ELSE slots
\* Container::remove: take() leaves None in place; no slot moves.
ContainerRemove(slots, key) ==
    IF key + 1 <= Len(slots)
    THEN [slots EXCEPT ![key + 1] = NoSlot]
    ELSE slots

\* Container::get_state: the state of an occupied slot, None otherwise.
GetState(slots, key) ==
    IF Resident(slots, key) THEN slots[key + 1].state ELSE "None"

\* Faulty variant: the state of every occupied slot is set.
SetStateAll(slots, key, state) ==
    [i \in DOMAIN slots |->
        IF slots[i].some THEN [slots[i] EXCEPT !.state = state] ELSE slots[i]]
\* *get_state_mut(key).unwrap() = state
SetState(slots, key, state) == [slots EXCEPT ![key + 1].state = state]

\* ------------------------------------------------------- lib.rs: Action

\* The key lists of length at most n over the keys 0 .. nk-1.
RECURSIVE KeySeqs(_, _)
KeySeqs(n, nk) ==
    IF n = 0 THEN {<<>>}
    ELSE KeySeqs(n - 1, nk) \cup [1 .. n -> KeyIds(nk)]

\* What one resume of a generator can return: GeneratorState::Complete, or
\* GeneratorState::Yielded of an Action (Hold durations in delays, lists of
\* at most many keys, keys below nk).
GenResults(nk, many, delays) ==
    {[tag |-> "Complete", d |-> 0, keys |-> <<>>],
     [tag |-> "Passivate", d |-> 0, keys |-> <<>>]}
    \cup {[tag |-> "Hold", d |-> dd, keys |-> <<>>] : dd \in delays}
    \cup {[tag |-> "ActivateOne", d |-> 0, keys |-> <<k>>] : k \in KeyIds(nk)}
    \cup {[tag |-> "ActivateMany", d |-> 0, keys |-> ks] : ks \in KeySeqs(many, nk)}

\* ------------------------------------------- simulation.rs: Simulation

\* Faulty variant: a missing target is skipped.
PromoteSkipMissing(d, other) ==
    IF ~Resident(d.inner, other)
    THEN d
    ELSE IF d.inner[other + 1].state = "Active"
    THEN [d EXCEPT !.panic = "ActivateAlreadyActive"]
    ELSE ScheduleNow([d EXCEPT !.inner = SetState(d.inner, other, "Active")],
                     other)
\* Faulty variant: an Active target is scheduled like a Passivated one.
PromoteNoCheck(d, other) ==
    IF ~Resident(d.inner, other)
    THEN [d EXCEPT !.panic = "MissingComponent"]
    ELSE ScheduleNow([d EXCEPT !.inner = SetState(d.inner, other, "Active")],
                     other)
\* Faulty variant: the target is scheduled but left Passivated.
PromoteKeepState(d, other) ==
    IF ~Resident(d.inner, other)
    THEN [d EXCEPT !.panic = "MissingComponent"]
    ELSE IF d.inner[other + 1].state = "Active"
    THEN [d EXCEPT !.panic = "ActivateAlreadyActive"]
    ELSE ScheduleNow(d, other)
\* The check-and-promote of one Activate* target, after which the target is
\* scheduled now: get_state_mut(other_key).unwrap() panics on a missing
\* component, an Active target panics, a Passivated one becomes Active.
Promote(d, other) ==
    IF ~Resident(d.inner, other)
    THEN [d EXCEPT !.panic = "MissingComponent"]
    ELSE IF d.inner[other + 1].state = "Active"
    THEN [d EXCEPT !.panic = "ActivateAlreadyActive"]
    ELSE ScheduleNow([d EXCEPT !.inner = SetState(d.inner, other, "Active")],
                     other)

\* for other_key in other_keys { ... }: the loop ends at the first panic.
RECURSIVE PromoteAll(_, _)
PromoteAll(d, others) ==
    IF others = <<>> \/ d.panic # "none"
    THEN d
    ELSE PromoteAll(Promote(d, Head(others)), Tail(others))

\* Faulty variant: a Hold is scheduled whatever the component's state.
OnYieldHoldUnchecked(d, key, res) ==
    LET passivated == d.inner[key + 1].state = "Passivated"
    IN  CASE res.tag = "Hold" -> Schedule(d, res.d, key)
          [] res.tag = "Passivate" ->
               IF passivated
               THEN [d EXCEPT !.panic = "PassivateOnPassivated"]
               ELSE [d EXCEPT !.inner = SetState(d.inner, key, "Passivated")]
          [] res.tag = "ActivateOne" ->
               IF passivated
               THEN [d EXCEPT !.panic = "PassivatedEmittedCommand"]
               ELSE Promote(ScheduleNow(d, key), res.keys[1])
          [] res.tag = "ActivateMany" ->
               IF passivated
               THEN [d EXCEPT !.panic = "PassivatedEmittedCommand"]
               ELSE PromoteAll(ScheduleNow(d, key), res.keys)
\* Faulty variant: a component that passivates is scheduled again.
OnYieldPassivateScheduled(d, key, res) ==
    LET passivated == d.inner[key + 1].state = "Passivated"
    IN  CASE res.tag = "Hold" ->
               IF passivated
               THEN [d EXCEPT !.panic = "HoldByPassivated"]
               ELSE Schedule(d, res.d, key)
          [] res.tag = "Passivate" ->
               IF passivated
               THEN [d EXCEPT !.panic = "PassivateOnPassivated"]
               ELSE ScheduleNow([d EXCEPT !.inner =
                                    SetState(d.inner, key, "Passivated")], key)
          [] res.tag = "ActivateOne" ->
               IF passivated
               THEN [d EXCEPT !.panic = "PassivatedEmittedCommand"]
               ELSE Promote(ScheduleNow(d, key), res.keys[1])
          [] res.tag = "ActivateMany" ->
               IF passivated
               THEN [d EXCEPT !.panic = "PassivatedEmittedCommand"]
               ELSE PromoteAll(ScheduleNow(d, key), res.keys)
\* The match on the yielded action, for the running component key.
OnYield(d, key, res) ==
    LET passivated == d.inner[key + 1].state = "Passivated"
    IN  CASE res.tag = "Hold" ->
               IF passivated
               THEN [d EXCEPT !.panic = "HoldByPassivated"]
               ELSE Schedule(d, res.d, key)
          [] res.tag = "Passivate" ->
               IF passivated
               THEN [d EXCEPT !.panic = "PassivateOnPassivated"]
               ELSE [d EXCEPT !.inner = SetState(d.inner, key, "Passivated")]
          [] res.tag = "ActivateOne" ->
               IF passivated
               THEN [d EXCEPT !.panic = "PassivatedEmittedCommand"]
               ELSE Promote(ScheduleNow(d, key), res.keys[1])
          [] res.tag = "ActivateMany" ->
               IF passivated
               THEN [d EXCEPT !.panic = "PassivatedEmittedCommand"]
               ELSE PromoteAll(ScheduleNow(d, key), res.keys)

\* Faulty variant: an entry for a vacated or unknown slot is dropped.
OnResumeSkipMissing(d, key, res) ==
    IF ~Resident(d.inner, key)
    THEN d
    ELSE IF res.tag = "Complete"
    THEN [d EXCEPT !.inner = ContainerRemove(d.inner, key)]
    ELSE OnYield(d, key, res)
\* Faulty variant: an Activate* that panics leaves the queue and the states
\* as the pop left them.
OnResumeRollback(d, key, res) ==
    IF ~Resident(d.inner, key)
    THEN [d EXCEPT !.panic = "RemovedComponent"]
    ELSE IF res.tag = "Complete"
    THEN [d EXCEPT !.inner = ContainerRemove(d.inner, key)]
    ELSE IF OnYield(d, key, res).panic \in {"ActivateAlreadyActive",
                                            "MissingComponent"}
    THEN [d EXCEPT !.panic = OnYield(d, key, res).panic]
    ELSE OnYield(d, key, res)
\* Simulation::step_with after the pop returned an entry for key: the
\* component is resumed (Container::step_with panics on a vacated or unknown
\* slot) and what the generator returned (res) is handled.
OnResume(d, key, res) ==
    IF ~Resident(d.inner, key)
    THEN [d EXCEPT !.panic = "RemovedComponent"]
    ELSE IF res.tag = "Complete"
    THEN [d EXCEPT !.inner = ContainerRemove(d.inner, key)]
    ELSE OnYield(d, key, res)

\* ------------------------------------------------------------- history

Range(f) == {f[i] : i \in DOMAIN f}

NoAct == [kind |-> "none", time |-> 0, n |-> 0, pending |-> <<>>, broken |-> FALSE]

\* The resumes an Activate* still expects, after key is resumed at time t:
\* the keys of pending are expected in that order.
ActResumed(a, key, t) ==
    IF a.kind = "none" THEN a
    ELSE IF t > a.time THEN NoAct
    ELSE IF a.broken \/ a.pending = <<>> THEN a
    ELSE IF key = Head(a.pending) THEN [a EXCEPT !.pending = Tail(a.pending)]
    ELSE IF key \in Range(a.pending)
    THEN [a EXCEPT !.broken = TRUE, !.pending = <<>>]
    ELSE a

\* The record of an Activate* yielded by key at time t and handled without
\* a panic: the activator, then the targets as listed.
ActYielded(key, t, res) ==
    [kind    |-> IF res.tag = "ActivateOne" THEN "one" ELSE "many",
     time    |-> t,
     n       |-> Len(res.keys),
     pending |-> <<key>> \o res.keys,
     broken  |-> FALSE]

\* The record of an Activate* yielded by key at time t whose handling
\* panicked after promoted of its targets had been promoted and scheduled.
ActAborted(t, res, promoted) ==
    [kind    |-> "aborted",
     time    |-> t,
     n       |-> promoted,
     pending |-> res.keys,
     broken  |-> FALSE]

\* The slots' history field after key yielded res.
HistInner(slots, key, res) ==
    [i \in DOMAIN slots |->
        IF ~slots[i].some THEN slots[i]
        ELSE IF i = key + 1
        THEN [slots[i] EXCEPT !.sleeps = (res.tag = "Passivate")]
        ELSE IF (i - 1) \in Range(res.keys)
        THEN [slots[i] EXCEPT !.sleeps = FALSE]
        ELSE slots[i]]

\* seq without the first element equal to e.
RECURSIVE RemoveFirst(_, _)
RemoveFirst(seq, e) ==
    IF seq = <<>> THEN <<>>
    ELSE IF Head(seq) = e THEN Tail(seq)
    ELSE <<Head(seq)>> \o RemoveFirst(Tail(seq), e)

\* ------------------------------------------------- generator bodies, run_*

\* fuel of a generator body that never returns.
Forever == -1
\* hold of a generator body that may yield any command.
AnyCommand == -1

\* A generator body: it yields fuel commands and then returns (Forever: it
\* never returns); every command is Hold(hold) (AnyCommand: each command
\* is whatever the body chooses).
\* History: done counts the commands yielded so far.
AnyBody == [fuel |-> Forever, hold |-> AnyCommand, done |-> 0]

\* The bodies registered in SpecRun: terminating ones, and ones that yield
\* Hold(d) forever with d >= 1.
RunBodies ==
    {[fuel |-> 0, hold |-> AnyCommand, done |-> 0]}
    \cup {[fuel |-> f, hold |-> h, done |-> 0] :
            f \in 1 .. MaxFuel, h \in {AnyCommand} \cup Delays}
    \cup {[fuel |-> Forever, hold |-> h, done |-> 0] : h \in 1 .. MaxDelay}

\* The commands the terminating bodies among the first n keys yield in all.
RECURSIVE TotalFuel(_, _)
TotalFuel(bodies, n) ==
    IF n = 0 THEN 0
    ELSE TotalFuel(bodies, n - 1)
         + (IF bodies[n - 1].fuel = Forever THEN 0 ELSE bodies[n - 1].fuel)

\* The body has yielded all its commands: the next resume returns.
Exhausted(gen) == gen.fuel # Forever /\ gen.done >= gen.fuel

\* What the next resume of a generator with body gen can return.
BodyResults(gen) ==
    {res \in GenResults(MaxProcsRun, MaxMany, Delays) :
        IF Exhausted(gen) THEN res.tag = "Complete"
        ELSE /\ res.tag # "Complete"
             /\ gen.hold # AnyCommand => (res.tag = "Hold" /\ res.d = gen.hold)}

\* The body after one more resume.
ResumedBody(gen) ==
    IF Exhausted(gen) THEN gen ELSE [gen EXCEPT !.done = @ + 1]

\* No run_until_empty / run_with_limit call has been made.  pc is the
\* position of the call: "idle" before it, "loop" at the head of its while
\* loop, "returned" after it; kind is the function called.  History:
\* resumes counts the generators the call has resumed.
NoRun == [pc |-> "idle", kind |-> "none", limit |-> 0, resumes |-> 0]

\* Faulty variant: the loop goes on until the clock has passed the limit.
LimitReachedLate(time, limit) == time > limit
\* Faulty variant: the limit is never tested.
LimitReachedNever(time, limit) == FALSE
\* self.time() >= limit
LimitReached(time, limit) == time >= limit

\* Faulty variant: the loop goes on after Break.
AfterStepNoBreak(r, ret, time) ==
    IF ret = "Advance" /\ r.kind = "with_limit" /\ LimitReached(time, r.limit)
    THEN [r EXCEPT !.pc = "returned"]
    ELSE r
\* The position of a run_* call after an iteration in which self.step()
\* returned ret and left the clock at time: both loops end on Break, and
\* run_with_limit on an Advance that reached the limit.
AfterStep(r, ret, time) ==
    IF ret = "Break"
    THEN [r EXCEPT !.pc = "returned"]
    ELSE IF ret = "Advance" /\ r.kind = "with_limit" /\ LimitReached(time, r.limit)
    THEN [r EXCEPT !.pc = "returned"]
    ELSE r

\* The value the history counter run.resumes stops at: more than any call
\* of run_with_limit makes when every generator holds forever.
ResumesCap == MaxProcsRun * MaxLimit + 3

\* The latest time an entry can be due at in SpecRun.
MaxTimeRun == MaxLimit + MaxDelay * (2 + MaxFuel)

\* ------------------------------------------------------------- actions

Init ==
    /\ clock = 0
    /\ events = <<>>
    /\ inner = <<>>
    /\ panic = "none"
    /\ usched = [k \in KeyIds(MaxProcsNow + 1) |-> 0]
    /\ due = [k \in KeyIds(MaxProcsNow + 1) |-> -1]
    /\ act = NoAct
    /\ regs = 0
    /\ fifo = <<>>
    /\ last = [op |-> "init", key |-> -1]
    /\ gens = [k \in KeyIds(MaxProcsNow + 1) |-> AnyBody]
    /\ run = NoRun

\* Simulation::add_generator(gen), while fewer than n generators are
\* registered.
AddGeneratorOf(n, gen) ==
    /\ panic = "none"
    /\ Len(inner) < n
    /\ inner' = ContainerAdd(inner, regs)
    /\ gens' = [gens EXCEPT ![AddGeneratorKey(inner)] = gen]
    /\ regs' = regs + 1
    /\ last' = [op |-> "add", key |-> AddGeneratorKey(inner)]
    /\ UNCHANGED <<clock, events, panic, usched, due, act, fifo, run>>

\* Simulation::add_generator of a generator whose body is not constrained.
AddGenerator(n) == AddGeneratorOf(n, AnyBody)

\* Simulation::schedule(time, component_key), called by the user.  The key
\* is not validated.  usched counts the calls per key; a call for a key that
\* is not resident counts as two.
SimSchedule(time, key) ==
    /\ panic = "none"
    /\ Len(events) < MaxQueue + MaxProcsNow
    /\ clock + time <= MaxTime
    /\ LET d == Schedule([clock |-> clock, events |-> events,
                          inner |-> inner, panic |-> panic], time, key)
       IN  events' = d.events
    /\ usched' = [usched EXCEPT ![key] =
                    IF ~Resident(inner, key) \/ @ >= 1 THEN 2 ELSE 1]
    /\ due' = [due EXCEPT ![key] =
                    IF Resident(inner, key) /\ usched[key] = 0
                    THEN clock + time ELSE -1]
    /\ last' = [op |-> "schedule", key |-> key]
    /\ UNCHANGED <<clock, inner, panic, act, regs, fifo, gens, run>>

\* Simulation::schedule_now(component_key)
SimScheduleNow(key) == SimSchedule(0, key)

\* Simulation::schedule by a user who schedules every registered generator
\* at most once, and no other key.
ScheduleOnce(time, key) ==
    /\ Resident(inner, key)
    /\ usched[key] = 0
    /\ SimSchedule(time, key)

\* Faulty variant: the clock restarts when the queue is empty.
StepBreakReset ==
    /\ last' = [op |-> "break", key |-> -1]
    /\ clock' = 0
    /\ UNCHANGED <<events, inner, panic, usched, due, act, regs, fifo>>
\* Simulation::step_with when scheduler.pop() returns None: nothing changes
\* and ShouldContinue::Break is returned.
StepBreak ==
    /\ last' = [op |-> "break", key |-> -1]
    /\ UNCHANGED <<clock, events, inner, panic, usched, due, act, regs, fifo>>

\* Simulation::step_with: one driver iteration.  res is what the resumed
\* generator returns; afterwards the queue holds at most maxq entries and
\* none later than maxt.
StepWithin(res, maxq, maxt) ==
    /\ panic = "none"
    /\ IF events = <<>>
       THEN /\ res.tag = "Complete"
            /\ StepBreak
       ELSE \E p \in {SchedulerPop([clock |-> clock, events |-> events,
                                    inner |-> inner, panic |-> panic])} :
            \E key \in {p.item.component} :
            \E resumed \in {Resident(inner, key)} :
              /\ resumed \/ res.tag = "Complete"
              /\ \E d \in {OnResume(p.d, key, res)} :
                 \E ok \in {d.panic = "none"} :
                   /\ Len(d.events) <= maxq
                   /\ \A i \in DOMAIN d.events : d.events[i].time <= maxt
                   /\ clock' = d.clock
                   /\ events' = d.events
                   /\ panic' = d.panic
                   /\ inner' = IF resumed /\ res.tag # "Complete"
                               THEN HistInner(d.inner, key, res)
                               ELSE d.inner
                   /\ due' = IF ~resumed THEN due
                             ELSE [due EXCEPT ![key] =
                                     IF @ >= 0 /\ ok /\ res.tag = "Hold"
                                     THEN d.clock + res.d ELSE -1]
                   /\ act' = IF ~resumed THEN act
                             ELSE IF ok /\ res.tag \in {"ActivateOne", "ActivateMany"}
                             THEN ActYielded(key, d.clock, res)
                             ELSE IF d.panic \in {"ActivateAlreadyActive",
                                                  "MissingComponent"}
                             THEN ActAborted(d.clock, res,
                                             Len(d.events) - Len(p.d.events) - 1)
                             ELSE ActResumed(act, key, d.clock)
                   /\ last' = [op |-> "step", key |-> key]
                   /\ UNCHANGED <<usched, regs, fifo>>

\* Simulation::step_with called by the user, outside a run_* loop.
StepWith(res, maxq) ==
    /\ StepWithin(res, maxq, MaxTime)
    /\ UNCHANGED <<gens, run>>

\* A generator that obeys the process contract: it activates only resident,
\* Passivated peers, and names none twice.
Obeys(res) ==
    /\ \A i \in DOMAIN res.keys :
          /\ Resident(inner, res.keys[i])
          /\ inner[res.keys[i] + 1].state = "Passivated"
    /\ \A i, j \in DOMAIN res.keys : res.keys[i] = res.keys[j] => i = j

\* Scheduler::schedule called on the scheduler alone, as its unit tests do.
SchedulerSchedule(time, key) ==
    /\ Len(events) < MaxQueueSched
    /\ clock + time <= MaxTime
    /\ LET d == Schedule([clock |-> clock, events |-> events,
                          inner |-> inner, panic |-> panic], time, key)
       IN  events' = d.events
    /\ fifo' = Append(fifo, EventEntryNew(clock + time, key))
    /\ last' = [op |-> "schedule", key |-> key]
    /\ UNCHANGED <<clock, inner, panic, usched, due, act, regs, gens, run>>

\* Scheduler::pop called on the scheduler alone.
SchedulerPopCall ==
    IF events = <<>>
    THEN /\ last' = [op |-> "pop", key |-> -1]
         /\ UNCHANGED <<clock, events, inner, panic, usched, due, act, regs,
                        fifo, gens, run>>
    ELSE LET p == SchedulerPop([clock |-> clock, events |-> events,
                                inner |-> inner, panic |-> panic])
         IN  /\ clock' = p.d.clock
             /\ events' = p.d.events
             /\ fifo' = RemoveFirst(fifo, p.item)
             /\ last' = [op |-> "pop", key |-> p.item.component]
             /\ UNCHANGED <<inner, panic, usched, due, act, regs, gens, run>>

\* The key of the entry the next pop returns.
NextKey == HeapPop(events).item.component

\* Simulation::run_until_empty is called.  The model takes the call only
\* when every registered generator terminates.
RunUntilEmpty ==
    /\ panic = "none"
    /\ run.pc = "idle"
    /\ \A k \in KeyIds(Len(inner)) : gens[k].fuel # Forever
    /\ run' = [pc |-> "loop", kind |-> "until_empty", limit |-> 0,
               resumes |-> 0]
    /\ last' = [op |-> "run", key |-> -1]
    /\ UNCHANGED <<clock, events, inner, panic, usched, due, act, regs, fifo,
                   gens>>

\* Faulty variant: the limit is tested before the first iteration.
RunWithLimitTestFirst(limit) ==
    /\ panic = "none"
    /\ run.pc = "idle"
    /\ run' = [pc |-> IF LimitReached(clock, limit) THEN "returned" ELSE "loop",
               kind |-> "with_limit", limit |-> limit, resumes |-> 0]
    /\ last' = [op |-> "run", key |-> -1]
    /\ UNCHANGED <<clock, events, inner, panic, usched, due, act, regs, fifo,
                   gens>>
\* Simulation::run_with_limit(limit) is called.
RunWithLimit(limit) ==
    /\ panic = "none"
    /\ run.pc = "idle"
    /\ run' = [pc |-> "loop", kind |-> "with_limit", limit |-> limit,
               resumes |-> 0]
    /\ last' = [op |-> "run", key |-> -1]
    /\ UNCHANGED <<clock, events, inner, panic, usched, due, act, regs, fifo,
                   gens>>

\* One iteration of the while loop of run_until_empty / run_with_limit:
\* self.step(), where the generator popped returns res as its body says;
\* on Break the call returns, and so does run_with_limit when the clock has
\* reached the limit after an Advance.
RunIter(res) ==
    /\ run.pc = "loop"
    /\ StepWithin(res, MaxProcsRun, MaxTimeRun)
    /\ \E ret \in {IF last'.op = "break" THEN "Break"
                    ELSE IF panic' = "none" THEN "Advance" ELSE "none"} :
       \E resumed \in {events # <<>> /\ Resident(inner, NextKey)} :
          /\ resumed => res \in BodyResults(gens[NextKey])
          /\ gens' = IF resumed
                     THEN [gens EXCEPT ![NextKey] = ResumedBody(@)]
                     ELSE gens
          /\ run' = [AfterStep(run, ret, clock') EXCEPT
                        !.resumes = IF resumed /\ @ < ResumesCap
                                    THEN @ + 1 ELSE @]

\* The driver, with a user who may schedule any key any number of times.
Next ==
    \/ AddGenerator(MaxProcs)
    \/ \E time \in Delays, key \in KeyIds(MaxProcs) :
          Len(events) < MaxQueue /\ SimSchedule(time, key)
    \/ \E key \in KeyIds(MaxProcs) :
          Len(events) < MaxQueue /\ SimScheduleNow(key)
    \/ \E res \in GenResults(MaxProcs, MaxMany, Delays) : StepWith(res, MaxQueue)

Spec == Init /\ [][Next]_vars

\* The driver at one virtual time, used as its contract asks: the user
\* calls schedule_now once for each registered generator, every Hold is
\* Hold(0), and the generators obey the process contract.
NextNow ==
    \/ AddGenerator(MaxProcsNow)
    \/ \E key \in KeyIds(MaxProcsNow) : ScheduleOnce(0, key)
    \/ \E res \in GenResults(MaxProcsNow, MaxManyNow, {0}) :
          Obeys(res) /\ StepWith(res, MaxProcsNow)

SpecNow == Init /\ [][NextNow]_vars

\* A whole run: the user registers generators, calls schedule_now at most
\* once for each of them, and then calls run_until_empty or run_with_limit;
\* the generators obey the process contract.
NextRun ==
    \/ \E gen \in RunBodies :
          /\ run.pc = "idle"
          /\ TotalFuel([gens EXCEPT ![Len(inner)] = gen], Len(inner) + 1) <= MaxFuel
          /\ AddGeneratorOf(MaxProcsRun, gen)
    \/ \E key \in KeyIds(MaxProcsRun) :
          run.pc = "idle" /\ ScheduleOnce(0, key)
    \/ RunUntilEmpty
    \/ \E limit \in 0 .. MaxLimit : RunWithLimit(limit)
    \/ \E res \in GenResults(MaxProcsRun, MaxMany, Delays) :
          Obeys(res) /\ RunIter(res)

SpecRun == Init /\ [][NextRun]_vars

\* The loop of a run_* call goes on while it has an iteration to make.
SpecRunFair ==
    SpecRun /\ WF_vars(\E res \in GenResults(MaxProcsRun, MaxMany, Delays) :
                          Obeys(res) /\ RunIter(res))

\* The scheduler alone.
NextSched ==
    \/ \E time \in Delays, key \in KeyIds(MaxKeysSched) : SchedulerSchedule(time, key)
    \/ SchedulerPopCall

SchedSpec == Init /\ [][NextSched]_vars

\* ---------------------------------------------------------- properties

\* A driver iteration that popped an entry is taking place.
Stepping == last'.op = "step" /\ events # <<>>

\* The number of entries of seq equal to e.
Count(seq, e) == Cardinality({i \in DOMAIN seq : seq[i] = e})

\* The number of entries of seq for the component key.
EntriesFor(seq, key) == Cardinality({i \in DOMAIN seq : seq[i].component = key})

\* What the last call of step_with returned: ShouldContinue::Break,
\* ShouldContinue::Advance, or nothing because it panicked.
ShouldContinue ==
    IF last.op = "break" THEN "Break"
    ELSE IF last.op = "step" /\ panic = "none" THEN "Advance"
    ELSE "none"

\* What the generators of Spec can return.
Results == GenResults(MaxProcs, MaxMany, Delays)

\* C1: the virtual clock never decreases: no operation, and in particular
\* no pop, leaves the clock lower than it found it.
C1_ClockMonotonic == [][clock' >= clock]_vars

\* A driver iteration has popped an entry and advanced the clock.
C1_Witness == last.op = "step" /\ clock > 0

\* C2: a pop on a non-empty queue removes one entry whose time is the
\* minimum over the pending entries, returns it (the iteration dispatches
\* its key), sets the clock to that time, and leaves every other pending
\* entry in the queue.
C2_PopMin ==
    [][Stepping =>
        /\ \A i \in DOMAIN events : clock' <= events[i].time
        /\ \E i \in DOMAIN events :
              /\ events[i].time = clock'
              /\ events[i].component = last'.key
              /\ \A j \in DOMAIN events :
                    Count(events', events[j]) >=
                        Count(events, events[j])
                        - (IF events[j] = events[i] THEN 1 ELSE 0)]_vars

\* An iteration popped the earliest entry and left a later one pending.
C2_Witness ==
    /\ last.op = "step"
    /\ clock = 1
    /\ \E i \in DOMAIN events : events[i].time > clock

\* The first entry of seq with the given time.
RECURSIVE FirstAt(_, _)
FirstAt(seq, time) ==
    IF Head(seq).time = time THEN Head(seq) ELSE FirstAt(Tail(seq), time)

\* C3: FIFO tie-break: among pending entries of equal time, pop returns the
\* one inserted first.
C3_FifoTieBreak ==
    [][(last'.op = "pop" /\ events # <<>>) =>
        last'.key = FirstAt(fifo, clock').component]_vars

\* C4: after ActivateMany([a, b, c]) with a, b, c Passivated, the resumes at
\* that virtual time happen in the order self, a, b, c.
C4_ActivateManyOrder == (act.kind = "many" /\ act.n = 3) => ~act.broken

\* C5: after ActivateOne(other) with other Passivated, the activator's next
\* resume at that virtual time comes before the activated peer's.
C5_ActivateOneOrder == act.kind = "one" => ~act.broken

\* C6 (I3): the driver resumes a process only while its state is Active.
C6_SteppedOnlyActive ==
    [][(Stepping /\ Resident(inner, last'.key)) =>
        inner[last'.key + 1].state = "Active"]_vars

\* C7 (I2), as claimed: every pending entry refers to a key whose slot is
\* occupied.
C7_EntriesResident ==
    \A i \in DOMAIN events : Resident(inner, events[i].component)

\* The user has scheduled only resident keys, and each at most once.
ScheduledOnce == \A k \in DOMAIN usched : usched[k] <= 1

\* C7 (I2), amended: when the user has scheduled only registered generators
\* and each at most once, every pending entry refers to a key whose slot is
\* occupied.
C7_EntriesResidentOnce == ScheduledOnce => C7_EntriesResident

\* A generator has completed and was removed while entries are pending, the
\* user having scheduled each generator once.
C7_Witness ==
    /\ ScheduledOnce
    /\ events # <<>>
    /\ \E i \in DOMAIN inner : ~inner[i].some

\* C8 (P3): between driver iterations a resident process is Passivated
\* exactly when the last command it yielded was Passivate and no peer has
\* named it in an Activate* since.
C8_StateInvariant ==
    panic = "none" =>
        \A i \in DOMAIN inner :
            inner[i].some => (inner[i].state = "Passivated" <=> inner[i].sleeps)

\* A process was activated by a peer and has passivated again.
C8_Witness ==
    /\ panic = "none"
    /\ act.kind = "one"
    /\ act.pending = <<>>
    /\ \E i \in DOMAIN inner : inner[i].some /\ inner[i].state = "Passivated"

C10_HoldRoundTrip ==
    [][(Stepping /\ Resident(inner, last'.key) /\ due[last'.key] >= 0) =>
        clock' = due[last'.key]]_vars

\* The only scheduled process, scheduled once, was resumed at time 2 after
\* Holds that sum to 2 from its initial time.
C10_Witness ==
    /\ last.op = "step"
    /\ last.key = 0
    /\ usched[0] = 1
    /\ \A k \in DOMAIN usched : k # 0 => usched[k] = 0
    /\ clock = 2
    /\ due[0] = 2

\* C11 (P7): termination: when every registered process yields finitely
\* many commands and then returns, and no protocol violation occurs, a call
\* of run_until_empty eventually returns, and the event queue is empty when
\* it does.
C11_Termination ==
    (run.kind = "until_empty" /\ run.pc = "loop")
        ~> (run.pc = "returned" /\ events = <<>>)

\* run_until_empty has returned after resuming two processes, four times
\* in all, one of them staying Passivated.
C11_Witness ==
    /\ run.kind = "until_empty"
    /\ run.pc = "returned"
    /\ regs = 2
    /\ run.resumes = 4
    /\ \E k \in KeyIds(MaxProcsRun) : GetState(inner, k) = "Passivated"

\* C12: whenever run_with_limit(limit) has returned, the event queue is empty
\* or the clock is at least limit; and once an iteration has left the clock
\* at limit or later the call makes no further iteration: it is never at
\* the head of its loop again.
C12_RunWithLimitPost ==
    run.kind = "with_limit" =>
        /\ run.pc = "returned" => (events = <<>> \/ clock >= run.limit)
        /\ (run.pc = "loop" /\ run.resumes > 0 /\ panic = "none") =>
              clock < run.limit

\* run_with_limit has returned at the limit with entries still pending.
C12_Witness ==
    /\ run.kind = "with_limit"
    /\ run.pc = "returned"
    /\ run.limit > 0
    /\ clock >= run.limit
    /\ events # <<>>

\* Every registered process yields Hold(d) forever with d >= 1, and each
\* was scheduled before the run.
HoldForever ==
    /\ regs >= 1
    /\ \A k \in KeyIds(regs) : gens[k].fuel = Forever /\ usched[k] = 1

\* C13 (S5): with processes that each yield Hold(d) forever, d >= 1, all
\* scheduled initially, run_with_limit(limit) eventually returns with the
\* clock at limit or later, after a bounded number of resumes (at most one
\* per process and time unit below the limit, and one more).
C13_LimitHalts ==
    (run.kind = "with_limit" /\ run.pc = "loop" /\ HoldForever)
        ~> (/\ run.pc = "returned"
            /\ clock >= run.limit
            /\ run.resumes <= regs * run.limit + 1)

\* Two processes holding forever were stopped by the largest limit.
C13_Witness ==
    /\ HoldForever
    /\ regs = 2
    /\ run.kind = "with_limit"
    /\ run.pc = "returned"
    /\ run.limit = MaxLimit
    /\ clock >= run.limit
    /\ run.resumes > regs

\* C14 (S1): a single registered process that yields Hold(0) three times and
\* then returns, after schedule_now and run_until_empty, has been resumed
\* exactly 4 times, the clock is 0, and the container's len() is 0.
C14_SingleFiniteProcess ==
    (/\ regs = 1
     /\ gens[0].fuel = 3
     /\ gens[0].hold = 0
     /\ usched[0] = 1
     /\ run.kind = "until_empty"
     /\ run.pc = "returned") =>
        /\ run.resumes = 4
        /\ clock = 0
        /\ ContainerLen(inner) = 0

\* C15: whenever a running process yields ActivateOne(other), or an
\* ActivateMany containing other, while other is Active, the iteration ends
\* in a fatal abort: it does not return Advance, and it leaves no entry for
\* other that was not pending before.
C15_ActivateActiveFatal ==
    [][\A res \in Results, other \in KeyIds(MaxProcs) :
        (/\ events # <<>>
         /\ Resident(inner, NextKey)
         /\ res.tag \in {"ActivateOne", "ActivateMany"}
         /\ other \in Range(res.keys)
         /\ GetState(inner, other) = "Active"
         /\ StepWith(res, MaxQueue)) =>
            /\ panic' # "none"
            /\ ShouldContinue' # "Advance"
            /\ EntriesFor(events', other) <= EntriesFor(events, other)]_vars

\* An iteration was aborted because the target of an Activate* was Active.
C15_Witness == last.op = "step" /\ panic = "ActivateAlreadyActive"

\* C16: schedule(delay, key) adds exactly one pending entry, for key at the
\* clock plus delay (schedule_now(key) is schedule(0, key)), and leaves the
\* clock, every other pending entry and every process state unchanged.
C16_ScheduleFrame ==
    [][\A time \in Delays, key \in KeyIds(MaxProcs) :
        (SimSchedule(time, key) \/ (time = 0 /\ SimScheduleNow(key))) =>
            /\ Len(events') = Len(events) + 1
            /\ Count(events', EventEntryNew(clock + time, key)) =
                 Count(events, EventEntryNew(clock + time, key)) + 1
            /\ \A i \in DOMAIN events :
                 Count(events', events[i]) >= Count(events, events[i])
            /\ clock' = clock
            /\ inner' = inner]_vars

\* The user scheduled a key, after the clock had advanced, while another
\* entry was pending and a process was Passivated.
C16_Witness ==
    /\ last.op = "schedule"
    /\ clock > 0
    /\ Len(events) >= 2
    /\ \E k \in KeyIds(MaxProcs) : GetState(inner, k) = "Passivated"

\* C17: step_with returns Break if and only if the event queue is empty at
\* the start of the iteration; then the clock, the queue, the container and
\* all process states are unchanged, even when processes remain Passivated.
C17_EmptyQueueBreak ==
    [][\A res \in Results :
        StepWith(res, MaxQueue) =>
            /\ (ShouldContinue' = "Break") <=> (events = <<>>)
            /\ events = <<>> =>
                 /\ clock' = clock
                 /\ events' = events
                 /\ inner' = inner
                 /\ panic' = panic]_vars

\* An iteration returned Break while a process was Passivated, after the
\* clock had advanced.
C17_Witness ==
    /\ ShouldContinue = "Break"
    /\ clock > 0
    /\ \E k \in KeyIds(MaxProcs) : GetState(inner, k) = "Passivated"

\* What a generator that returns hands to the driver.
Completes == [tag |-> "Complete", d |-> 0, keys |-> <<>>]

\* C18: when the resumed process returns, the iteration returns Advance, the
\* process's slot is vacated (get_state gives None) and stays so from then
\* on, no entry is added to the queue, and the state of every other process
\* is unchanged.
C18_CompletionRemoves ==
    [][/\ (/\ StepWith(Completes, MaxQueue)
           /\ events # <<>>
           /\ Resident(inner, NextKey)) =>
              /\ ShouldContinue' = "Advance"
              /\ GetState(inner', NextKey) = "None"
              /\ events' = HeapPop(events).rest
              /\ \A k \in KeyIds(MaxProcs) :
                   k # NextKey => GetState(inner', k) = GetState(inner, k)
       /\ \A k \in KeyIds(Len(inner)) :
            GetState(inner, k) = "None" => GetState(inner', k) = "None"]_vars

\* A process returned and was removed while another one was Passivated and
\* an entry was pending.
C18_Witness ==
    /\ ShouldContinue = "Advance"
    /\ last.key < Len(inner)
    /\ GetState(inner, last.key) = "None"
    /\ events # <<>>
    /\ \E k \in KeyIds(MaxProcs) : GetState(inner, k) = "Passivated"

\* C19 (I5): a process's state changes from Active to Passivated only in an
\* iteration in which that process yielded Passivate, and from Passivated to
\* Active only in an iteration in which a different process yielded an
\* Activate* naming it; no other operation changes a process's state.
C19_TransitionsOnlyByCommands ==
    [][\A k \in KeyIds(MaxProcs) :
        /\ (GetState(inner, k) = "Active" /\ GetState(inner', k) = "Passivated") =>
              \E res \in Results :
                 /\ res.tag = "Passivate"
                 /\ events # <<>>
                 /\ NextKey = k
                 /\ StepWith(res, MaxQueue)
        /\ (GetState(inner, k) = "Passivated" /\ GetState(inner', k) = "Active") =>
              \E res \in Results :
                 /\ res.tag \in {"ActivateOne", "ActivateMany"}
                 /\ k \in Range(res.keys)
                 /\ events # <<>>
                 /\ NextKey # k
                 /\ Resident(inner, NextKey)
                 /\ StepWith(res, MaxQueue)
        /\ GetState(inner, k) \in {"Active", "Passivated"} =>
              GetState(inner', k) \in {"Active", "Passivated", "None"}]_vars

\* A process that had passivated was activated by a peer's ActivateMany.
C19_Witness ==
    /\ act.kind = "many"
    /\ act.n = 1
    /\ panic = "none"
    /\ GetState(inner, act.pending[Len(act.pending)]) = "Active"

\* What a generator that yields Passivate hands to the driver.
Passivates == [tag |-> "Passivate", d |-> 0, keys |-> <<>>]

\* C20: when an Active process is resumed and yields Passivate, its state
\* becomes Passivated, no entry is added to the queue (the pending entries
\* are the former ones less the popped one), and the iteration returns
\* Advance.
C20_PassivateStep ==
    [][(/\ StepWith(Passivates, MaxQueue)
        /\ events # <<>>
        /\ GetState(inner, NextKey) = "Active") =>
           /\ GetState(inner', NextKey) = "Passivated"
           /\ Len(events') = Len(events) - 1
           /\ events' = HeapPop(events).rest
           /\ ShouldContinue' = "Advance"]_vars

\* A process passivated while entries for others stayed pending.
C20_Witness ==
    /\ ShouldContinue = "Advance"
    /\ GetState(inner, last.key) = "Passivated"
    /\ events # <<>>
    /\ EntriesFor(events, last.key) = 0

\* C21: if the process being resumed is Passivated and yields Hold,
\* Passivate, ActivateOne or ActivateMany, the iteration ends in a fatal
\* abort before any entry is scheduled and before any process state is
\* changed: the queue is the former one less the popped entry.
C21_PassivatedCommandFatal ==
    [][\A res \in Results :
        (/\ events # <<>>
         /\ GetState(inner, NextKey) = "Passivated"
         /\ res.tag # "Complete"
         /\ StepWith(res, MaxQueue)) =>
            /\ panic' \in {"HoldByPassivated", "PassivateOnPassivated",
                           "PassivatedEmittedCommand"}
            /\ ShouldContinue' = "none"
            /\ events' = HeapPop(events).rest
            /\ \A k \in KeyIds(MaxProcs) :
                 GetState(inner', k) = GetState(inner, k)]_vars

\* A Passivated process was resumed and yielded Hold while another entry
\* was pending.
C21_Witness ==
    /\ panic = "HoldByPassivated"
    /\ GetState(inner, last.key) = "Passivated"
    /\ events # <<>>

\* The position in keys of the first key that occurs earlier in keys, or 0.
RECURSIVE FirstRepeat(_, _)
FirstRepeat(keys, j) ==
    IF j > Len(keys) THEN 0
    ELSE IF \E i \in 1 .. (j - 1) : keys[i] = keys[j] THEN j
    ELSE FirstRepeat(keys, j + 1)

\* C22: if an Active process yields ActivateMany whose list names a
\* Passivated key twice, the keys before the second occurrence being
\* Passivated processes, the first occurrence is promoted to Active and
\* scheduled now, and the second occurrence ends the iteration in the
\* activate-already-active abort.
C22_DuplicateKeyFatal ==
    [][\A res \in Results :
        (/\ events # <<>>
         /\ GetState(inner, NextKey) = "Active"
         /\ res.tag = "ActivateMany"
         /\ FirstRepeat(res.keys, 1) > 0
         /\ \A i \in 1 .. (FirstRepeat(res.keys, 1) - 1) :
              GetState(inner, res.keys[i]) = "Passivated"
         /\ StepWith(res, MaxQueue)) =>
            LET dup == res.keys[FirstRepeat(res.keys, 1)]
            IN  /\ panic' = "ActivateAlreadyActive"
                /\ GetState(inner', dup) = "Active"
                /\ Count(events', EventEntryNew(clock', dup)) =
                     Count(HeapPop(events).rest, EventEntryNew(clock', dup)) + 1]_vars

\* Process 1 yielded ActivateMany([0, 0]) with 0 Passivated: 0 was promoted
\* and scheduled once, then the iteration was aborted.
C22_Witness ==
    /\ panic = "ActivateAlreadyActive"
    /\ act.kind = "aborted"
    /\ act.pending = <<0, 0>>
    /\ act.n = 1
    /\ GetState(inner, 0) = "Active"

\* C23: if a process yields ActivateOne(other), or an ActivateMany
\* containing other, where other has completed and was removed or was never
\* registered, the iteration ends in a fatal abort: the target is not
\* silently ignored.
C23_MissingTargetFatal ==
    [][\A res \in Results, other \in KeyIds(MaxProcs) :
        (/\ events # <<>>
         /\ Resident(inner, NextKey)
         /\ res.tag \in {"ActivateOne", "ActivateMany"}
         /\ other \in Range(res.keys)
         /\ GetState(inner, other) = "None"
         /\ StepWith(res, MaxQueue)) =>
            /\ panic' # "none"
            /\ ShouldContinue' = "none"
            /\ EntriesFor(events', other) <= EntriesFor(events, other)]_vars

\* An iteration was aborted because the target of an Activate* had been
\* removed.
C23_Witness ==
    /\ panic = "MissingComponent"
    /\ act.kind = "aborted"
    /\ \E i \in DOMAIN act.pending :
          /\ act.pending[i] < Len(inner)
          /\ GetState(inner, act.pending[i]) = "None"

\* C24: if the popped entry's key names a slot that was vacated or never
\* existed, the iteration aborts fatally in Container::step_with; the pop has
\* by then removed the entry and advanced the clock to its time, and nothing
\* else has changed.
C24_RemovedDispatchFatal ==
    [][\A res \in Results :
        (/\ events # <<>>
         /\ GetState(inner, NextKey) = "None"
         /\ StepWith(res, MaxQueue)) =>
            /\ panic' = "RemovedComponent"
            /\ ShouldContinue' = "none"
            /\ clock' = HeapPop(events).item.time
            /\ events' = HeapPop(events).rest
            /\ inner' = inner]_vars

\* An entry for a removed process was popped at a later time than the
\* clock's before.
C24_Witness ==
    /\ panic = "RemovedComponent"
    /\ last.key < Len(inner)
    /\ GetState(inner, last.key) = "None"
    /\ clock = MaxTime

\* The user has scheduled every registered key exactly once and no other.
EachScheduledOnce ==
    \A k \in DOMAIN usched : usched[k] = (IF k < Len(inner) THEN 1 ELSE 0)

\* C25: if the user schedules each registered key exactly once and no fatal
\* abort occurs, then between iterations every resident Active process has
\* exactly one pending entry, and every Passivated and every removed process
\* has none.
C25_JointScheduling ==
    (EachScheduledOnce /\ panic = "none") =>
        \A k \in KeyIds(Len(inner)) :
            EntriesFor(events, k) =
                (IF GetState(inner, k) = "Active" THEN 1 ELSE 0)

\* Of two processes scheduled once each, one has been removed and the
\* other, once Passivated, was activated and has its entry pending.
C25_Witness ==
    /\ EachScheduledOnce
    /\ panic = "none"
    /\ Len(inner) = 2
    /\ \E k \in KeyIds(2) : GetState(inner, k) = "None"
    /\ \E k \in KeyIds(2) : GetState(inner, k) = "Active"
    /\ act.kind \in {"one", "many"}

\* The number of targets in keys handled before the first that is missing
\* or Active when its turn comes (Active before, or named earlier in keys).
RECURSIVE Promoted(_, _, _)
Promoted(slots, keys, j) ==
    IF j > Len(keys) THEN Len(keys)
    ELSE IF \/ GetState(slots, keys[j]) # "Passivated"
            \/ \E i \in 1 .. (j - 1) : keys[i] = keys[j]
    THEN j - 1
    ELSE Promoted(slots, keys, j + 1)

\* C26: when an Activate* yielded by an Active process aborts because a
\* target is Active or missing, the activator has already been scheduled at
\* the current time, and every earlier target of the list has already been
\* set to Active and scheduled now: the queue and the states are not what
\* the pop left.
C26_PartialEffects ==
    [][\A res \in Results :
        (/\ events # <<>>
         /\ GetState(inner, NextKey) = "Active"
         /\ res.tag \in {"ActivateOne", "ActivateMany"}
         /\ StepWith(res, MaxQueue)
         /\ panic' \in {"ActivateAlreadyActive", "MissingComponent"}) =>
            LET rest == HeapPop(events).rest
                n    == Promoted(inner, res.keys, 1)
            IN  /\ n < Len(res.keys)
                /\ Len(events') = Len(rest) + 1 + n
                /\ events' # rest
                /\ \A k \in KeyIds(MaxProcs) :
                     EntriesFor(events', k) = EntriesFor(rest, k)
                        + (IF k = NextKey THEN 1 ELSE 0)
                        + (IF \E i \in 1 .. n : res.keys[i] = k THEN 1 ELSE 0)
                /\ \A i \in DOMAIN events' :
                     events'[i].time >= clock'
                /\ \A i \in 1 .. n :
                     /\ GetState(inner', res.keys[i]) = "Active"
                     /\ Count(events', EventEntryNew(clock', res.keys[i])) >= 1
                /\ Count(events', EventEntryNew(clock', NextKey)) >= 1]_vars

\* Process 1 yielded ActivateMany([0, 1]): the Passivated 0 was promoted and
\* scheduled, then the Active 1 aborted the iteration.
C26_Witness ==
    /\ panic = "ActivateAlreadyActive"
    /\ act.kind = "aborted"
    /\ act.pending = <<0, 1>>
    /\ act.n = 1
    /\ last.key = 1
    /\ GetState(inner, 0) = "Active"
    /\ EntriesFor(events, 0) >= 1
    /\ EntriesFor(events, 1) >= 1

\* C27: run_with_limit tests the limit only after an iteration: with a
\* non-empty queue every pass of the loop pops the next entry and resumes
\* its process, whatever the clock (also when the clock is at the limit on
\* entry), and the call returns exactly after the pass that left the clock
\* at the limit or later; it never returns with entries pending and nothing
\* resumed.
C27_LimitTestedAfter ==
    /\ [](( /\ run.kind = "with_limit"
            /\ run.pc = "returned"
            /\ events # <<>>) =>
              (run.resumes >= 1 /\ last.op = "step" /\ clock >= run.limit))
    /\ [][(/\ run.kind = "with_limit"
           /\ run.pc = "loop"
           /\ events # <<>>) =>
              /\ last'.op = "step"
              /\ last'.key = NextKey
              /\ clock' = HeapPop(events).item.time
              /\ run'.resumes > run.resumes \/ run.resumes = ResumesCap
              /\ gens'[NextKey].done > gens[NextKey].done
                   \/ GetState(inner', NextKey) = "None"
              /\ (run'.pc = "returned") <=> (clock' >= run.limit)]_vars

\* run_with_limit(0) has returned after one iteration with an entry pending.
C27_Witness ==
    /\ run.kind = "with_limit"
    /\ run.limit = 0
    /\ run.pc = "returned"
    /\ run.resumes = 1
    /\ events # <<>>

====
